---- MODULE Spec2Model ----
(***************************************************************************)
(* Model of src/src/calibration.py: the CalibrationManager state machine   *)
(* (start / add_frame / progress), its frame filter, frame averaging and   *)
(* baseline computation.                                                   *)
(*                                                                         *)
(* Numbers.  Landmark coordinates and visibilities are Python floats; the  *)
(* inputs of the model are tenths (5 stands for 0.5) and every quotient    *)
(* the code forms is kept as an exact fraction [num, den] in lowest terms. *)
(* time.monotonic() is the integer variable now; time.time() is drawn from *)
(* WallClock.  Optional values are sequences: <<>> is None, <<v>> is v.    *)
(***************************************************************************)
EXTENDS Integers, Sequences, FiniteSets, TLC

\* ------------------------------------------------------------------------
\* Bounds of the model
MaxClock == 3
MaxDuration == 2
MaxFrames == 2
MaxCoord == 2
MaxSamples == 3

\* ------------------------------------------------------------------------
\* Landmark indices (calibration.py:35-43)
NOSE == 0
LEFT_EAR == 7
RIGHT_EAR == 8
LEFT_SHOULDER == 11
RIGHT_SHOULDER == 12
LEFT_HIP == 23
RIGHT_HIP == 24

KEY_LANDMARKS == <<NOSE, LEFT_EAR, RIGHT_EAR, LEFT_SHOULDER, RIGHT_SHOULDER, LEFT_HIP, RIGHT_HIP>>

KeySet == {KEY_LANDMARKS[i] : i \in 1..Len(KEY_LANDMARKS)}

Fields == {"x", "y", "z", "visibility"}

\* class CalibrationState
CalibrationState == {"IDLE", "CAPTURING", "COMPLETE", "FAILED"}

None == <<>>
Some(v) == <<v>>

\* ------------------------------------------------------------------------
\* Exact fractions

Abs(n) == IF n < 0 THEN -n ELSE n

RECURSIVE GCD(_, _)
GCD(a, b) == IF b = 0 THEN a ELSE GCD(b, a % b)

\* n / d for d # 0, in lowest terms with a positive denominator
Rat(n, d) ==
  LET s == IF d < 0 THEN -1 ELSE 1
      g == GCD(Abs(n), Abs(d))
  IN [num |-> (s * n) \div g, den |-> (s * d) \div g]

RatInt(n) == [num |-> n, den |-> 1]
Zero == RatInt(0)
One == RatInt(1)

RatAdd(a, b) == Rat(a.num * b.den + b.num * a.den, a.den * b.den)
RatSub(a, b) == Rat(a.num * b.den - b.num * a.den, a.den * b.den)
RatDivInt(a, k) == Rat(a.num, a.den * k)
RatAbs(a) == [num |-> Abs(a.num), den |-> a.den]
RatLeq(a, b) == a.num * b.den <= b.num * a.den
RatMin(a, b) == IF RatLeq(b, a) THEN b ELSE a

\* ------------------------------------------------------------------------
\* Inputs: the pose_landmarks objects handed to add_frame

\* One landmark as the pose estimator reports it (floats in tenths)
LandmarkPoint(x, y, z, v) == [x |-> x, y |-> y, z |-> z, visibility |-> v]

\* A landmark list of n entries, seen through the key indices it holds:
\* landmarks.landmark[idx] exists iff idx < n.  Every entry is (x, 5, 0, v),
\* except that the entries in low have visibility 1 (0.1).  The inputs tie
\* x to v, so that frames of different confidence differ in position too.
make_landmarks(n, x, v, low) ==
  [n |-> n,
   landmark |-> [idx \in {k \in KeySet : k < n} |->
                   LandmarkPoint(x, 5, 0, IF idx \in low THEN 1 ELSE v)]]

\* The landmark list the averaging test builds: entry idx is at
\* (0.1 * idx, 0.2 * idx, 0), so that no two landmarks coincide.
indexed_landmarks(n, v) ==
  [n |-> n,
   landmark |-> [idx \in {k \in KeySet : k < n} |->
                   LandmarkPoint(idx, 2 * idx, 0, v)]]

\* 33 entries is what the pose estimator delivers; a list of 24 entries has
\* no entry RIGHT_HIP
ListLengths == {33, 24}
Visibilities == {1, 5, 9}
LowSets == {{}, {NOSE}}

LandmarkInputs ==
  {None} \cup
  {Some(make_landmarks(n, v - 1, v, low)) :
      n \in ListLengths, v \in Visibilities, low \in LowSets}

Thresholds == {5, 9}
WallClock == {1000, 1001}

\* ------------------------------------------------------------------------
\* Internal helpers of CalibrationManager

\* all(landmarks.landmark[idx].visibility >= min_visibility for idx in
\* KEY_LANDMARKS), evaluated left to right from position i: the first entry
\* below the threshold ends the walk with False; indexing past the end of the
\* list before that raises IndexError.
meets_threshold_strict(visibility, thr) == visibility > thr

\* landmarks.landmark[idx].visibility >= self.min_visibility
meets_threshold(visibility, thr) == visibility >= thr

RECURSIVE usable_from(_, _, _)
usable_from(lm, thr, i) ==
  IF i > Len(KEY_LANDMARKS) THEN "True"
  ELSE IF KEY_LANDMARKS[i] >= lm.n THEN "IndexError"
  ELSE IF meets_threshold(lm.landmark[KEY_LANDMARKS[i]].visibility, thr)
       THEN usable_from(lm, thr, i + 1)
       ELSE "False"

frame_is_usable_skips_first(lm, thr) == usable_from(lm, thr, 2)

frame_is_usable(lm, thr) == usable_from(lm, thr, 1)

extract_frame(lm) ==
  [idx \in KeySet |->
     [x |-> lm.landmark[idx].x, y |-> lm.landmark[idx].y,
      z |-> lm.landmark[idx].z, visibility |-> lm.landmark[idx].visibility]]

\* ------------------------------------------------------------------------
\* Frame averaging

RECURSIVE SumField(_, _, _, _)
SumField(fs, idx, field, i) ==
  IF i > Len(fs) THEN 0 ELSE fs[i][idx][field] + SumField(fs, idx, field, i + 1)

RECURSIVE RunningField(_, _, _, _)
RunningField(fs, idx, field, i) ==
  IF i = 1 THEN RatInt(fs[1][idx][field])
  ELSE RatDivInt(RatAdd(RunningField(fs, idx, field, i - 1),
                        RatInt(fs[i][idx][field])), 2)

average_frames_running(fs) ==
  [idx \in KeySet |->
     [field \in Fields |-> RunningField(fs, idx, field, Len(fs))]]

average_frames_off_by_one(fs) ==
  LET n == Len(fs) + 1
  IN [idx \in KeySet |->
        [field \in Fields |-> Rat(SumField(fs, idx, field, 1), n)]]

average_frames_latest(fs) ==
  LET n == Len(fs)
  IN [idx \in KeySet |->
        [field \in Fields |-> Rat(fs[n][idx][field], 1)]]

\* called with a non-empty list only
average_frames(fs) ==
  LET n == Len(fs)
  IN [idx \in KeySet |->
        [field \in Fields |-> Rat(SumField(fs, idx, field, 1), n)]]

\* ------------------------------------------------------------------------
\* Geometry

\* math.degrees(math.atan2(dx, dy)): the angle depends on the direction of
\* (dx, dy) only.  dir is that direction as a primitive integer vector; the
\* eight directions whose angle is a whole number of degrees carry it in deg
\* (exact = TRUE), atan2(0, 0) is 0.
atan2_degrees(dx, dy) ==
  LET X == dx.num * dy.den
      Y == dy.num * dx.den
      g == GCD(Abs(X), Abs(Y))
      ux == IF g = 0 THEN 0 ELSE X \div g
      uy == IF g = 0 THEN 0 ELSE Y \div g
      principal == ux = 0 \/ uy = 0 \/ Abs(ux) = Abs(uy)
      deg == IF ux = 0 THEN (IF uy >= 0 THEN 0 ELSE 180)
             ELSE IF uy = 0 THEN (IF ux > 0 THEN 90 ELSE -90)
             ELSE IF ux > 0 THEN (IF uy > 0 THEN 45 ELSE 135)
             ELSE (IF uy > 0 THEN -45 ELSE -135)
  IN [dir |-> <<ux, uy>>, exact |-> principal, deg |-> IF principal THEN deg ELSE 0]

neck_angle_dy_not_inverted(ear, shoulder) ==
  LET dx == RatSub(ear.x, shoulder.x)
      dy == RatSub(ear.y, shoulder.y)
  IN atan2_degrees(dx, dy)

neck_angle(ear, shoulder) ==
  LET dx == RatSub(ear.x, shoulder.x)
      dy == RatSub(shoulder.y, ear.y)
  IN atan2_degrees(dx, dy)

\* ------------------------------------------------------------------------
\* Baseline computation

compute_baseline_left_pair(avg, t) ==
  LET pt(idx) == [x |-> avg[idx]["x"], y |-> avg[idx]["y"],
                  z |-> avg[idx]["z"], visibility |-> avg[idx]["visibility"]]
      l_shoulder == pt(LEFT_SHOULDER)
      r_shoulder == pt(RIGHT_SHOULDER)
      l_hip == pt(LEFT_HIP)
      r_hip == pt(RIGHT_HIP)
      l_ear == pt(LEFT_EAR)
  IN [nose |-> pt(NOSE),
      left_ear |-> l_ear,
      right_ear |-> pt(RIGHT_EAR),
      left_shoulder |-> l_shoulder,
      right_shoulder |-> r_shoulder,
      left_hip |-> l_hip,
      right_hip |-> r_hip,
      neck_angle |-> neck_angle(l_ear, l_shoulder),
      shoulder_y_avg |-> RatDivInt(RatAdd(l_shoulder.y, r_shoulder.y), 2),
      shoulder_width |-> RatAbs(RatSub(r_shoulder.x, l_shoulder.x)),
      torso_centroid_x |->
        RatDivInt(RatAdd(RatAdd(RatAdd(l_shoulder.x, r_shoulder.x), l_hip.x), r_hip.x), 4),
      torso_centroid_y |->
        RatDivInt(RatAdd(RatAdd(RatAdd(l_shoulder.y, r_shoulder.y), l_hip.y), r_hip.y), 4),
      captured_at |-> t]

compute_baseline(avg, t) ==
  LET pt(idx) == [x |-> avg[idx]["x"], y |-> avg[idx]["y"],
                  z |-> avg[idx]["z"], visibility |-> avg[idx]["visibility"]]
      l_shoulder == pt(LEFT_SHOULDER)
      r_shoulder == pt(RIGHT_SHOULDER)
      l_hip == pt(LEFT_HIP)
      r_hip == pt(RIGHT_HIP)
      r_ear == pt(RIGHT_EAR)
  IN [nose |-> pt(NOSE),
      left_ear |-> pt(LEFT_EAR),
      right_ear |-> r_ear,
      left_shoulder |-> l_shoulder,
      right_shoulder |-> r_shoulder,
      left_hip |-> l_hip,
      right_hip |-> r_hip,
      neck_angle |-> neck_angle(r_ear, r_shoulder),
      shoulder_y_avg |-> RatDivInt(RatAdd(l_shoulder.y, r_shoulder.y), 2),
      shoulder_width |-> RatAbs(RatSub(r_shoulder.x, l_shoulder.x)),
      torso_centroid_x |->
        RatDivInt(RatAdd(RatAdd(RatAdd(l_shoulder.x, r_shoulder.x), l_hip.x), r_hip.x), 4),
      torso_centroid_y |->
        RatDivInt(RatAdd(RatAdd(RatAdd(l_shoulder.y, r_shoulder.y), l_hip.y), r_hip.y), 4),
      captured_at |-> t]

\* _finalize on buffer fs, with baseline b held before the call and
\* time.time() = t: the state and baseline it leaves
finalize_always_complete(fs, b, t) ==
  IF fs = <<>>
  THEN [state |-> "COMPLETE", baseline |-> b]
  ELSE [state |-> "COMPLETE", baseline |-> Some(compute_baseline(average_frames(fs), t))]

finalize_drops_baseline(fs, b, t) ==
  IF fs = <<>>
  THEN [state |-> "FAILED", baseline |-> b]
  ELSE [state |-> "COMPLETE", baseline |-> b]

finalize_min_samples(fs, b, t) ==
  IF Len(fs) < 2
  THEN [state |-> "FAILED", baseline |-> b]
  ELSE [state |-> "COMPLETE", baseline |-> Some(compute_baseline(average_frames(fs), t))]

finalize(fs, b, t) ==
  IF fs = <<>>
  THEN [state |-> "FAILED", baseline |-> b]
  ELSE [state |-> "COMPLETE", baseline |-> Some(compute_baseline(average_frames(fs), t))]

\* elapsed >= self.capture_duration
window_elapsed(elapsed, duration) == elapsed >= duration

progress_value_countdown(st, start, clock, duration) ==
  IF st = "IDLE" THEN [raised |-> "none", val |-> Zero]
  ELSE IF st \in {"COMPLETE", "FAILED"} THEN [raised |-> "none", val |-> One]
  ELSE IF start = None THEN [raised |-> "none", val |-> Zero]
  ELSE LET elapsed == clock - start[1]
       IN IF duration = 0
          THEN [raised |-> "ZeroDivisionError", val |-> Zero]
          ELSE [raised |-> "none", val |-> RatMin(Rat(duration - elapsed, duration), One)]

\* the value the progress property returns, or the exception it raises
progress_value(st, start, clock, duration) ==
  IF st = "IDLE" THEN [raised |-> "none", val |-> Zero]
  ELSE IF st \in {"COMPLETE", "FAILED"} THEN [raised |-> "none", val |-> One]
  ELSE IF start = None THEN [raised |-> "none", val |-> Zero]
  ELSE LET elapsed == clock - start[1]
       IN IF duration = 0
          THEN [raised |-> "ZeroDivisionError", val |-> Zero]
          ELSE [raised |-> "none", val |-> RatMin(Rat(elapsed, duration), One)]

\* ------------------------------------------------------------------------
\* Serialization
\*
\* Values that travel through dicts and JSON carry their type: a Python value
\* is [t |-> "float" | "str" | "dict", v |-> ...], a JSON value is
\* [t |-> "number" | "string" | "object", v |-> ...], and a file that is not
\* JSON at all holds [t |-> "invalid", v |-> ...].  json writes a float as
\* the shortest decimal that reads back as the same float, so a number keeps
\* its value through dump and load.

PyFloat(x) == [t |-> "float", v |-> x]
PyStr(s) == [t |-> "str", v |-> s]
PyDict(d) == [t |-> "dict", v |-> d]

PointKeys == <<"x", "y", "z", "visibility">>
PointNames == <<"nose", "left_ear", "right_ear", "left_shoulder",
                "right_shoulder", "left_hip", "right_hip">>
ScalarNames == <<"neck_angle", "shoulder_y_avg", "shoulder_width",
                 "torso_centroid_x", "torso_centroid_y", "captured_at">>

Range(seq) == {seq[i] : i \in 1..Len(seq)}

point_to_dict_confidence(pt) ==
  PyDict([x |-> PyFloat(pt.x), y |-> PyFloat(pt.y), z |-> PyFloat(pt.z),
          confidence |-> PyFloat(pt.visibility)])

point_to_dict(pt) ==
  PyDict([x |-> PyFloat(pt.x), y |-> PyFloat(pt.y), z |-> PyFloat(pt.z),
          visibility |-> PyFloat(pt.visibility)])

baseline_to_dict(b) ==
  PyDict([nose |-> point_to_dict(b.nose),
          left_ear |-> point_to_dict(b.left_ear),
          right_ear |-> point_to_dict(b.right_ear),
          left_shoulder |-> point_to_dict(b.left_shoulder),
          right_shoulder |-> point_to_dict(b.right_shoulder),
          left_hip |-> point_to_dict(b.left_hip),
          right_hip |-> point_to_dict(b.right_hip),
          neck_angle |-> PyFloat(b.neck_angle),
          shoulder_y_avg |-> PyFloat(b.shoulder_y_avg),
          shoulder_width |-> PyFloat(b.shoulder_width),
          torso_centroid_x |-> PyFloat(b.torso_centroid_x),
          torso_centroid_y |-> PyFloat(b.torso_centroid_y),
          captured_at |-> PyFloat(b.captured_at)])

\* json.dump: dict -> object, float -> number, str -> string
RECURSIVE json_dump(_)
json_dump(val) ==
  IF val.t = "dict"
  THEN [t |-> "object", v |-> [k \in DOMAIN val.v |-> json_dump(val.v[k])]]
  ELSE IF val.t = "float" THEN [t |-> "number", v |-> val.v]
  ELSE [t |-> "string", v |-> val.v]

\* json.load of a document that parses
RECURSIVE json_load(_)
json_load(doc) ==
  IF doc.t = "object"
  THEN [t |-> "dict", v |-> [k \in DOMAIN doc.v |-> json_load(doc.v[k])]]
  ELSE IF doc.t = "number" THEN [t |-> "float", v |-> doc.v]
  ELSE [t |-> "str", v |-> doc.v]

\* the Python object a decoded value is: a float is its value, anything
\* else stays what it is
py_object(val) == IF val.t = "float" THEN val.v ELSE val

\* d[key] for each key of keys in turn, from position i: the exception the
\* first failing subscript raises, "none" if all succeed.  Subscripting a
\* float or a str with a str raises TypeError, a missing key KeyError.
RECURSIVE subscript_error(_, _, _)
subscript_error(d, keys, i) ==
  IF i > Len(keys) THEN "none"
  ELSE IF d.t # "dict" THEN "TypeError"
  ELSE IF keys[i] \notin DOMAIN d.v THEN "KeyError"
  ELSE subscript_error(d, keys, i + 1)

\* _point_from_dict: the exception it raises, and the point it returns
point_from_dict_error(d) == subscript_error(d, PointKeys, 1)

point_from_dict(d) ==
  [x |-> py_object(d.v["x"]), y |-> py_object(d.v["y"]),
   z |-> py_object(d.v["z"]), visibility |-> py_object(d.v["visibility"])]

\* _baseline_from_dict evaluates its keyword arguments in order: the seven
\* points, each d[name] handed to _point_from_dict, then the six scalars
RECURSIVE points_error(_, _)
points_error(d, i) ==
  IF i > Len(PointNames) THEN "none"
  ELSE IF d.t # "dict" THEN "TypeError"
  ELSE IF PointNames[i] \notin DOMAIN d.v THEN "KeyError"
  ELSE IF point_from_dict_error(d.v[PointNames[i]]) # "none"
       THEN point_from_dict_error(d.v[PointNames[i]])
       ELSE points_error(d, i + 1)

baseline_from_dict_error(d) ==
  IF points_error(d, 1) # "none" THEN points_error(d, 1)
  ELSE subscript_error(d, ScalarNames, 1)

baseline_from_dict_swapped(d) ==
  [nose |-> point_from_dict(d.v["nose"]),
   left_ear |-> point_from_dict(d.v["right_ear"]),
   right_ear |-> point_from_dict(d.v["left_ear"]),
   left_shoulder |-> point_from_dict(d.v["left_shoulder"]),
   right_shoulder |-> point_from_dict(d.v["right_shoulder"]),
   left_hip |-> point_from_dict(d.v["left_hip"]),
   right_hip |-> point_from_dict(d.v["right_hip"]),
   neck_angle |-> py_object(d.v["neck_angle"]),
   shoulder_y_avg |-> py_object(d.v["shoulder_y_avg"]),
   shoulder_width |-> py_object(d.v["shoulder_width"]),
   torso_centroid_x |-> py_object(d.v["torso_centroid_x"]),
   torso_centroid_y |-> py_object(d.v["torso_centroid_y"]),
   captured_at |-> py_object(d.v["captured_at"])]

baseline_from_dict(d) ==
  [nose |-> point_from_dict(d.v["nose"]),
   left_ear |-> point_from_dict(d.v["left_ear"]),
   right_ear |-> point_from_dict(d.v["right_ear"]),
   left_shoulder |-> point_from_dict(d.v["left_shoulder"]),
   right_shoulder |-> point_from_dict(d.v["right_shoulder"]),
   left_hip |-> point_from_dict(d.v["left_hip"]),
   right_hip |-> point_from_dict(d.v["right_hip"]),
   neck_angle |-> py_object(d.v["neck_angle"]),
   shoulder_y_avg |-> py_object(d.v["shoulder_y_avg"]),
   shoulder_width |-> py_object(d.v["shoulder_width"]),
   torso_centroid_x |-> py_object(d.v["torso_centroid_x"]),
   torso_centroid_y |-> py_object(d.v["torso_centroid_y"]),
   captured_at |-> py_object(d.v["captured_at"])]

\* ------------------------------------------------------------------------
\* Persistence

\* A path is the sequence of its components below the working directory
BASELINE_PATH == <<"data", "calibration.json">>

Paths == {BASELINE_PATH}

Parent(p) == SubSeq(p, 1, Len(p) - 1)

\* path.parent.mkdir(parents=True, exist_ok=True)
mkdir_parents(ds, dir) == ds \cup {SubSeq(dir, 1, n) : n \in 0..Len(dir)}

save_result_mkdir_first(b, p, fls, ds) ==
  IF b = None
  THEN [raised |-> "RuntimeError", files |-> fls,
        dirs |-> mkdir_parents(ds, Parent(p))]
  ELSE [raised |-> "none",
        files |-> [fls EXCEPT ![p] = Some(json_dump(baseline_to_dict(b[1])))],
        dirs |-> mkdir_parents(ds, Parent(p))]

\* CalibrationManager.save with baseline b: the exception it raises and the
\* file system it leaves
save_result(b, p, fls, ds) ==
  IF b = None
  THEN [raised |-> "RuntimeError", files |-> fls, dirs |-> ds]
  ELSE [raised |-> "none",
        files |-> [fls EXCEPT ![p] = Some(json_dump(baseline_to_dict(b[1])))],
        dirs |-> mkdir_parents(ds, Parent(p))]

load_result_missing_is_none(p, fls) ==
  IF fls[p] = None
  THEN [raised |-> "none", baseline |-> None]
  ELSE IF fls[p][1].t = "invalid"
  THEN [raised |-> "JSONDecodeError", baseline |-> None]
  ELSE LET d == json_load(fls[p][1])
           err == baseline_from_dict_error(d)
       IN IF err # "none"
          THEN [raised |-> err, baseline |-> None]
          ELSE [raised |-> "none", baseline |-> Some(baseline_from_dict(d))]

\* CalibrationManager.load: the exception it raises, and what it returns
load_result(p, fls) ==
  IF fls[p] = None
  THEN [raised |-> "FileNotFoundError", baseline |-> None]
  ELSE IF fls[p][1].t = "invalid"
  THEN [raised |-> "JSONDecodeError", baseline |-> None]
  ELSE LET d == json_load(fls[p][1])
           err == baseline_from_dict_error(d)
       IN IF err # "none"
          THEN [raised |-> err, baseline |-> None]
          ELSE [raised |-> "none", baseline |-> Some(baseline_from_dict(d))]

\* ------------------------------------------------------------------------
\* State

VARIABLES
  capture_duration,  \* self.capture_duration (constructor argument)
  min_visibility,    \* self.min_visibility (constructor argument)
  state,             \* self.state
  baseline,          \* self.baseline: None or Some(PostureBaseline)
  frames,            \* self._frames
  start_time,        \* self._start_time: None or Some(instant)
  now,               \* time.monotonic()
  op,                \* the last operation performed
  arg,               \* the landmarks argument of the last add_frame call
  ret,               \* what the last call returned
  raised,            \* the exception the last call raised, or "none"
  finalized,         \* whether the last call ran _finalize
  prev_state,        \* self.state when the last operation began
  last_read,         \* the record of the values progress returned (SpecReads)
  files,             \* the file system: what each path holds, None if absent
  dirs,              \* the file system: the directories that exist
  path,              \* the path argument of the last save or load call
  loaded,            \* what the last load call returned: None or Some(baseline)
  pure_in,           \* the arguments drawn for the pure functions (SpecGeom)
  pure_out,          \* the result of the last pure function applied
  accepted,          \* the samples accepted since the last start()
  handler,           \* CalibrationView: the handler that ran last
  timer_on,          \* CalibrationView: self._timer is active
  cap_open,          \* CalibrationView: self._cap is an opened camera
  start_enabled,     \* CalibrationView: self._start_btn is enabled
  emits,             \* calibration_complete emissions since the last Start click
  payload,           \* the argument of the last calibration_complete emission
  slot_error         \* the exception that left the last handler, or "none"

session == <<state, baseline, frames, start_time>>
reads == <<last_read>>
store == <<files, dirs, path, loaded>>
pure == <<pure_in, pure_out>>
log == <<accepted>>
view == <<handler, timer_on, cap_open, start_enabled, emits, payload, slot_error>>
config == <<capture_duration, min_visibility>>
vars == <<capture_duration, min_visibility, state, baseline, frames, start_time,
          now, op, arg, ret, raised, finalized, prev_state, last_read,
          files, dirs, path, loaded, pure_in, pure_out, accepted,
          handler, timer_on, cap_open, start_enabled, emits, payload,
          slot_error>>

\* returned values: nothing (None, or no return because of an exception),
\* a CalibrationState, or a float
NoReturn == [kind |-> "none", st |-> "", val |-> Zero]
ReturnState(st) == [kind |-> "state", st |-> st, val |-> Zero]
ReturnFloat(v) == [kind |-> "float", st |-> "", val |-> v]

\* every one of the 7 required landmarks is present in lm with confidence
\* at least thr
AllRequiredConfident(lm, thr) ==
  \A idx \in KeySet :
    /\ idx \in DOMAIN lm.landmark
    /\ lm.landmark[idx].visibility >= thr

\* the sample made of the 7 required landmarks of lm
SampleOf(lm) == [idx \in KeySet |-> lm.landmark[idx]]

\* the samples add_frame has accepted since the last start(): emptied by
\* start(), extended by every add_frame call made while CAPTURING with a
\* landmark set whose 7 required landmarks are all confident enough
note_accepted ==
  accepted' =
    IF op' = "start" THEN <<>>
    ELSE IF /\ op' = "add_frame"
            /\ state = "CAPTURING"
            /\ arg' # None
            /\ AllRequiredConfident(arg'[1], min_visibility)
         THEN Append(accepted, SampleOf(arg'[1]))
         ELSE accepted

\* The record kept of the values progress returned while CAPTURING: the
\* latest value val, the value earlier of the CAPTURING read before it (None
\* for the first), whether start() was called between the two
\* (restarted_between) and whether it was called since the latest (restarted).
note_read(last, v) ==
  Some([val |-> v,
        earlier |-> IF last = None THEN None ELSE Some(last[1].val),
        restarted_between |-> IF last = None THEN FALSE ELSE last[1].restarted,
        restarted |-> FALSE])

note_start(last) ==
  IF last = None THEN None ELSE Some([last[1] EXCEPT !.restarted = TRUE])

\* CalibrationManager.__init__
InitSession ==
  /\ capture_duration \in 0..MaxDuration
  /\ min_visibility \in Thresholds
  /\ state = "IDLE"
  /\ baseline = None
  /\ frames = <<>>
  /\ start_time = None
  /\ now = 0
  /\ op = "init"
  /\ arg = None
  /\ ret = NoReturn
  /\ raised = "none"
  /\ finalized = FALSE
  /\ prev_state = "IDLE"
  /\ last_read = None

\* no calibration file exists yet; only the working directory does
InitStore ==
  /\ files = [p \in Paths |-> None]
  /\ dirs = {<<>>}
  /\ path = <<>>
  /\ loaded = None

\* CalibrationView.__init__ and _build_ui: the widget is not shown yet
InitView ==
  /\ handler = "__init__"
  /\ timer_on = FALSE
  /\ cap_open = FALSE
  /\ start_enabled = TRUE
  /\ emits = 0
  /\ payload = None
  /\ slot_error = "none"

Init ==
  /\ InitSession
  /\ InitStore
  /\ InitView
  /\ pure_in = None
  /\ pure_out = None
  /\ accepted = <<>>

start_keeps_baseline ==
  /\ frames' = <<>>
  /\ start_time' = Some(now)
  /\ baseline' = baseline
  /\ state' = "CAPTURING"
  /\ op' = "start"
  /\ arg' = None
  /\ ret' = NoReturn
  /\ raised' = "none"
  /\ finalized' = FALSE
  /\ prev_state' = state
  /\ UNCHANGED <<config, now>>

\* CalibrationManager.start
start ==
  /\ frames' = <<>>
  /\ start_time' = Some(now)
  /\ baseline' = None
  /\ state' = "CAPTURING"
  /\ op' = "start"
  /\ arg' = None
  /\ ret' = NoReturn
  /\ raised' = "none"
  /\ finalized' = FALSE
  /\ prev_state' = state
  /\ UNCHANGED <<config, now>>

\* the filter's verdict on the argument of add_frame:
\* landmarks is not None and self._frame_is_usable(landmarks)
filter_verdict(landmarks, thr) ==
  IF landmarks = None THEN "False" ELSE frame_is_usable(landmarks[1], thr)

not_capturing_idle_only(st) == st = "IDLE"

\* self.state != CalibrationState.CAPTURING
not_capturing(st) == st # "CAPTURING"

add_frame_expiry_first(landmarks) ==
  /\ op' = "add_frame"
  /\ arg' = landmarks
  /\ prev_state' = state
  /\ UNCHANGED <<config, now>>
  /\ IF not_capturing(state)
     THEN /\ ret' = ReturnState(state)
          /\ raised' = "none"
          /\ finalized' = FALSE
          /\ UNCHANGED session
     ELSE IF window_elapsed(now - start_time[1], capture_duration)
     THEN \E t \in WallClock :
            LET r == finalize(frames, baseline, t)
            IN /\ state' = r.state
               /\ baseline' = r.baseline
               /\ ret' = ReturnState(state')
               /\ raised' = "none"
               /\ finalized' = TRUE
               /\ UNCHANGED <<frames, start_time>>
     ELSE LET verdict == filter_verdict(landmarks, min_visibility)
          IN IF verdict = "IndexError"
             THEN /\ ret' = NoReturn
                  /\ raised' = "IndexError"
                  /\ finalized' = FALSE
                  /\ UNCHANGED session
             ELSE LET fs == IF verdict = "True"
                            THEN Append(frames, extract_frame(landmarks[1]))
                            ELSE frames
                  IN /\ Len(fs) <= MaxFrames
                     /\ frames' = fs
                     /\ raised' = "none"
                     /\ ret' = ReturnState(state)
                     /\ finalized' = FALSE
                     /\ UNCHANGED <<state, baseline, start_time>>

\* CalibrationManager.add_frame
add_frame(landmarks) ==
  /\ op' = "add_frame"
  /\ arg' = landmarks
  /\ prev_state' = state
  /\ UNCHANGED <<config, now>>
  /\ IF not_capturing(state)
     THEN /\ ret' = ReturnState(state)
          /\ raised' = "none"
          /\ finalized' = FALSE
          /\ UNCHANGED session
     ELSE LET verdict == filter_verdict(landmarks, min_visibility)
          IN IF verdict = "IndexError"
             THEN /\ ret' = NoReturn
                  /\ raised' = "IndexError"
                  /\ finalized' = FALSE
                  /\ UNCHANGED session
             ELSE LET fs == IF verdict = "True"
                            THEN Append(frames, extract_frame(landmarks[1]))
                            ELSE frames
                      elapsed == now - start_time[1]
                  IN /\ Len(fs) <= MaxFrames
                     /\ frames' = fs
                     /\ raised' = "none"
                     /\ UNCHANGED start_time
                     /\ IF window_elapsed(elapsed, capture_duration)
                        THEN \E t \in WallClock :
                               LET r == finalize(fs, baseline, t)
                               IN /\ state' = r.state
                                  /\ baseline' = r.baseline
                                  /\ ret' = ReturnState(state')
                                  /\ finalized' = TRUE
                        ELSE /\ ret' = ReturnState(state)
                             /\ finalized' = FALSE
                             /\ UNCHANGED <<state, baseline>>

\* ------------------------------------------------------------------------
\* The session on its own: the operations of CalibrationManager and the clock

Start == start /\ note_accepted /\ UNCHANGED <<reads, store, pure, view>>

AddFrame ==
  /\ \E landmarks \in LandmarkInputs : add_frame(landmarks)
  /\ note_accepted
  /\ UNCHANGED <<reads, store, pure, view>>

\* reading the CalibrationManager.progress property
progress_finalizes ==
  LET r == progress_value(state, start_time, now, capture_duration)
      expired == /\ state = "CAPTURING"
                 /\ window_elapsed(now - start_time[1], capture_duration)
  IN /\ op' = "progress"
     /\ arg' = None
     /\ raised' = r.raised
     /\ ret' = IF r.raised = "none" THEN ReturnFloat(r.val) ELSE NoReturn
     /\ prev_state' = state
     /\ UNCHANGED <<config, frames, start_time, now>>
     /\ IF expired
        THEN \E t \in WallClock :
               LET f == finalize(frames, baseline, t)
               IN /\ state' = f.state
                  /\ baseline' = f.baseline
                  /\ finalized' = TRUE
        ELSE /\ finalized' = FALSE
             /\ UNCHANGED <<state, baseline>>

progress ==
  LET r == progress_value(state, start_time, now, capture_duration)
  IN /\ op' = "progress"
     /\ arg' = None
     /\ raised' = r.raised
     /\ ret' = IF r.raised = "none" THEN ReturnFloat(r.val) ELSE NoReturn
     /\ finalized' = FALSE
     /\ prev_state' = state
     /\ UNCHANGED <<config, session, now>>

Progress == progress /\ UNCHANGED <<reads, store, pure, log, view>>

\* the monotonic clock advances between calls
tick ==
  /\ now < MaxClock
  /\ now' = now + 1
  /\ op' = "tick"
  /\ arg' = None
  /\ ret' = NoReturn
  /\ raised' = "none"
  /\ finalized' = FALSE
  /\ prev_state' = state
  /\ UNCHANGED <<config, session>>

Tick == tick /\ UNCHANGED <<reads, store, pure, log, view>>

Next == Start \/ AddFrame \/ Progress \/ Tick

Spec == Init /\ [][Next]_vars

\* The session driven by a frame loop: the clock keeps advancing and
\* add_frame keeps being called, as long as each can happen.
SpecLive ==
  Init /\ [][Next]_vars /\ WF_vars(Tick) /\ []<><<op' = "add_frame">>_vars

\* ------------------------------------------------------------------------
\* The session with its calibration files: save, load, and whatever else
\* writes to the files between a save and a load.

\* CalibrationManager.save
save(p) ==
  LET r == save_result(baseline, p, files, dirs)
  IN /\ op' = "save"
     /\ path' = p
     /\ raised' = r.raised
     /\ files' = r.files
     /\ dirs' = r.dirs
     /\ arg' = None
     /\ ret' = NoReturn
     /\ finalized' = FALSE
     /\ prev_state' = state
     /\ loaded' = None
     /\ UNCHANGED <<config, session, now, reads, pure, log, view>>

\* CalibrationManager.load (a static method: it has no session to touch)
load(p) ==
  LET r == load_result(p, files)
  IN /\ op' = "load"
     /\ path' = p
     /\ raised' = r.raised
     /\ loaded' = r.baseline
     /\ arg' = None
     /\ ret' = NoReturn
     /\ finalized' = FALSE
     /\ prev_state' = state
     /\ UNCHANGED <<config, session, now, files, dirs, reads, pure, log, view>>

\* The record save wrote, as another program or an editor may leave it
EditKinds ==
  {"drop_scalar", "drop_point", "drop_point_key", "scalar_string",
   "point_number", "coord_string", "extra_key", "garbage"}

without_key(obj, key) ==
  [t |-> "object", v |-> [k \in DOMAIN obj.v \ {key} |-> obj.v[k]]]

with_key(obj, key, val) ==
  [t |-> "object",
   v |-> [k \in DOMAIN obj.v \cup {key} |-> IF k = key THEN val ELSE obj.v[k]]]

edit_doc(doc, kind) ==
  CASE kind = "drop_scalar" -> without_key(doc, "neck_angle")
    [] kind = "drop_point" -> without_key(doc, "right_hip")
    [] kind = "drop_point_key" ->
         with_key(doc, "nose", without_key(doc.v["nose"], "visibility"))
    [] kind = "scalar_string" ->
         with_key(doc, "shoulder_width", [t |-> "string", v |-> "wide"])
    [] kind = "point_number" ->
         with_key(doc, "left_hip", [t |-> "number", v |-> Zero])
    [] kind = "coord_string" ->
         with_key(doc, "nose",
                  with_key(doc.v["nose"], "x", [t |-> "string", v |-> "left"]))
    [] kind = "extra_key" ->
         with_key(doc, "version", [t |-> "number", v |-> One])
    [] kind = "garbage" -> [t |-> "invalid", v |-> "{"]

\* doc is a record exactly as save writes one
is_point_doc(doc) ==
  /\ doc.t = "object"
  /\ DOMAIN doc.v = Range(PointKeys)
  /\ \A k \in Range(PointKeys) : doc.v[k].t = "number"

is_saved_doc(doc) ==
  /\ doc.t = "object"
  /\ DOMAIN doc.v = Range(PointNames) \cup Range(ScalarNames)
  /\ \A k \in Range(PointNames) : is_point_doc(doc.v[k])
  /\ \A k \in Range(ScalarNames) : doc.v[k].t = "number"

\* one edit of a file that save wrote
edit(p, kind) ==
  /\ files[p] # None
  /\ is_saved_doc(files[p][1])
  /\ files' = [files EXCEPT ![p] = Some(edit_doc(files[p][1], kind))]
  /\ op' = "edit"
  /\ path' = p
  /\ raised' = "none"
  /\ arg' = None
  /\ ret' = NoReturn
  /\ finalized' = FALSE
  /\ prev_state' = state
  /\ loaded' = None
  /\ UNCHANGED <<config, session, now, dirs, reads, pure, log, view>>

Save == \E p \in Paths : save(p)
Load == \E p \in Paths : load(p)
Edit == \E p \in Paths, kind \in EditKinds : edit(p, kind)

\* Neither save nor load looks at the buffer, so two inputs stand for all:
\* no detection (the window fails), and a frame every threshold accepts.
PersistInputs == {None, Some(indexed_landmarks(33, 9))}

\* the session's operations leave the files alone; path and loaded describe
\* the last call only
no_file_call ==
  /\ path' = <<>>
  /\ loaded' = None
  /\ UNCHANGED <<files, dirs, reads, pure, view>>

StartPersist == start /\ note_accepted /\ no_file_call

AddFramePersist ==
  /\ \E landmarks \in PersistInputs : add_frame(landmarks)
  /\ note_accepted
  /\ no_file_call

TickPersist == tick /\ no_file_call /\ UNCHANGED log

ProgressPersist == progress /\ no_file_call /\ UNCHANGED log

NextPersist ==
  \/ StartPersist
  \/ AddFramePersist
  \/ ProgressPersist
  \/ TickPersist
  \/ Save
  \/ Load
  \/ Edit

SpecPersist == Init /\ [][NextPersist]_vars

\* ------------------------------------------------------------------------
\* The session with a record of the values progress returns while CAPTURING.
\* progress never looks at the buffer, so three inputs stand for all: no
\* detection, a frame every threshold accepts, a list without RIGHT_HIP.

ProgressInputs ==
  {None, Some(make_landmarks(33, 8, 9, {})), Some(make_landmarks(24, 8, 9, {}))}

StartReads ==
  /\ start
  /\ note_accepted
  /\ last_read' = note_start(last_read)
  /\ UNCHANGED <<store, pure, view>>

AddFrameReads ==
  /\ \E landmarks \in ProgressInputs : add_frame(landmarks)
  /\ note_accepted
  /\ UNCHANGED <<reads, store, pure, view>>

ProgressReads ==
  /\ progress
  /\ last_read' = IF state = "CAPTURING" /\ raised' = "none"
                  THEN note_read(last_read, ret'.val)
                  ELSE last_read
  /\ UNCHANGED <<store, pure, log, view>>

NextReads == StartReads \/ AddFrameReads \/ ProgressReads \/ Tick

SpecReads == Init /\ [][NextReads]_vars

TypeOK ==
  /\ capture_duration \in 0..MaxDuration
  /\ min_visibility \in Thresholds
  /\ state \in CalibrationState
  /\ Len(baseline) <= 1
  /\ Len(frames) <= MaxFrames
  /\ start_time \in {None} \cup {Some(t) : t \in 0..MaxClock}
  /\ now \in 0..MaxClock
  /\ op \in {"init", "start", "add_frame", "progress", "tick",
             "save", "load", "edit", "apply", "view"}
  /\ raised \in {"none", "IndexError", "ZeroDivisionError", "RuntimeError",
                 "FileNotFoundError", "JSONDecodeError", "KeyError", "TypeError"}
  /\ dirs \subseteq {<<>>} \cup {Parent(p) : p \in Paths}
  /\ Len(loaded) <= 1
  /\ finalized \in BOOLEAN
  /\ prev_state \in CalibrationState
  /\ handler \in {"__init__", "showEvent", "hideEvent", "_on_cancel",
                  "_on_start", "_process_frame"}
  /\ timer_on \in BOOLEAN
  /\ cap_open \in BOOLEAN
  /\ start_enabled \in BOOLEAN
  /\ emits \in Nat
  /\ Len(payload) <= 1
  /\ slot_error \in {"none", "IndexError", "ZeroDivisionError", "RuntimeError"}

\* ------------------------------------------------------------------------
\* SpecGeom: the pure functions _neck_angle and _compute_baseline applied to
\* averaged points drawn at the start.

Coords == 0..MaxCoord

AvgPoint(x, y) ==
  [x |-> RatInt(x), y |-> RatInt(y), z |-> Zero, visibility |-> RatInt(9)]

\* An averaged frame (as _make_avg builds one, then overridden per landmark):
\* the right shoulder is at (1, 1), the left shoulder at (l_sh_x, 2), the
\* hips below them; the two ears are anywhere on the grid, so that the right
\* ear is above, below, beside and on the right shoulder.
make_avg(l_ear, r_ear, l_sh_x) ==
  [idx \in KeySet |->
     IF idx = NOSE THEN AvgPoint(1, 0)
     ELSE IF idx = LEFT_EAR THEN AvgPoint(l_ear[1], l_ear[2])
     ELSE IF idx = RIGHT_EAR THEN AvgPoint(r_ear[1], r_ear[2])
     ELSE IF idx = LEFT_SHOULDER THEN AvgPoint(l_sh_x, 2)
     ELSE IF idx = RIGHT_SHOULDER THEN AvgPoint(1, 1)
     ELSE IF idx = LEFT_HIP THEN AvgPoint(0, 3)
     ELSE AvgPoint(2, 3)]

GeomInputs ==
  {make_avg(l_ear, r_ear, l_sh_x) :
     l_ear \in Coords \X Coords, r_ear \in Coords \X Coords, l_sh_x \in {0, 2}}

Sides == [left |-> <<LEFT_EAR, LEFT_SHOULDER>>,
          right |-> <<RIGHT_EAR, RIGHT_SHOULDER>>]

InitGeom ==
  /\ InitSession
  /\ InitStore
  /\ InitView
  /\ accepted = <<>>
  /\ pure_in \in {Some(avg) : avg \in GeomInputs}
  /\ pure_out = None

applied(fn, args, val) ==
  /\ pure_out' = Some([fn |-> fn, args |-> args, val |-> val])
  /\ op' = "apply"
  /\ arg' = None
  /\ ret' = NoReturn
  /\ raised' = "none"
  /\ finalized' = FALSE
  /\ prev_state' = state
  /\ UNCHANGED <<config, session, now, reads, store, log, view, pure_in>>

\* _neck_angle(ear, shoulder) on the ear and shoulder of one side
ApplyNeckAngle ==
  \E side \in DOMAIN Sides :
    LET ear == pure_in[1][Sides[side][1]]
        shoulder == pure_in[1][Sides[side][2]]
    IN applied("neck_angle", <<ear, shoulder>>, neck_angle(ear, shoulder))

\* _compute_baseline(avg), with time.time() = t
ApplyComputeBaseline ==
  \E t \in WallClock :
    applied("compute_baseline", <<pure_in[1]>>, compute_baseline(pure_in[1], t))

NextGeom == ApplyNeckAngle \/ ApplyComputeBaseline

SpecGeom == InitGeom /\ [][NextGeom]_vars

\* ------------------------------------------------------------------------
\* SpecAvg: the pure function _average_frames applied to the permutations of
\* a list of samples drawn at the start.

\* the samples the lists are made of: two uniform frames and the frame of the
\* averaging test, whose landmarks all differ
AvgSamples ==
  {extract_frame(make_landmarks(33, 4, 5, {})),
   extract_frame(make_landmarks(33, 8, 9, {})),
   extract_frame(indexed_landmarks(33, 9))}

SampleLists ==
  UNION {[1..n -> AvgSamples] : n \in 1..MaxSamples}

Perms(n) ==
  {p \in [1..n -> 1..n] : \A i, j \in 1..n : p[i] = p[j] => i = j}

Permuted(fs, p) == [i \in 1..Len(fs) |-> fs[p[i]]]

InitAvg ==
  /\ InitSession
  /\ InitStore
  /\ InitView
  /\ accepted = <<>>
  /\ pure_in \in {Some(fs) : fs \in SampleLists}
  /\ pure_out = None

\* _average_frames(frames) on the drawn list in some order
ApplyAverageFrames ==
  \E p \in Perms(Len(pure_in[1])) :
    LET fs == Permuted(pure_in[1], p)
    IN applied("average_frames", <<fs>>, average_frames(fs))

NextAvg == ApplyAverageFrames

SpecAvg == InitAvg /\ [][NextAvg]_vars

\* ------------------------------------------------------------------------
\* SpecView: the frame loop of CalibrationView over the manager, with the
\* launcher's completion handler connected to calibration_complete.

\* what pose estimation delivers for a frame: no pose, or all 33 landmarks
ViewInputs ==
  {None, Some(make_landmarks(33, 8, 9, {})), Some(make_landmarks(33, 0, 1, {}))}

\* no manager call is made by the handler
no_manager_call ==
  /\ op' = "view"
  /\ arg' = None
  /\ ret' = NoReturn
  /\ raised' = "none"
  /\ finalized' = FALSE
  /\ prev_state' = state
  /\ UNCHANGED <<config, session, now, log>>

no_file_written ==
  /\ path' = <<>>
  /\ loaded' = None
  /\ UNCHANGED <<files, dirs>>

\* showEvent: the camera is opened (which may fail) and the timer started
showEvent ==
  /\ ~timer_on
  /\ handler' = "showEvent"
  /\ timer_on' = TRUE
  /\ cap_open' \in BOOLEAN
  /\ slot_error' = "none"
  /\ UNCHANGED <<start_enabled, emits, payload>>
  /\ no_manager_call
  /\ no_file_written

\* hideEvent: the timer is stopped and the camera released
hideEvent ==
  /\ timer_on
  /\ handler' = "hideEvent"
  /\ timer_on' = FALSE
  /\ cap_open' = FALSE
  /\ slot_error' = "none"
  /\ UNCHANGED <<start_enabled, emits, payload>>
  /\ no_manager_call
  /\ no_file_written

\* _on_cancel: the timer is stopped, the camera released and
\* calibration_cancelled emitted
on_cancel ==
  /\ timer_on
  /\ handler' = "_on_cancel"
  /\ timer_on' = FALSE
  /\ cap_open' = FALSE
  /\ slot_error' = "none"
  /\ UNCHANGED <<start_enabled, emits, payload>>
  /\ no_manager_call
  /\ no_file_written

\* _on_start: a click on the enabled Start button of the shown widget
on_start ==
  /\ timer_on
  /\ start_enabled
  /\ start
  /\ note_accepted
  /\ handler' = "_on_start"
  /\ start_enabled' = FALSE
  /\ emits' = 0
  /\ payload' = None
  /\ slot_error' = "none"
  /\ UNCHANGED <<timer_on, cap_open>>
  /\ no_file_written

feeds_manager_unless_idle(st) == st # "IDLE"

\* self._manager.state == CalibrationState.CAPTURING
feeds_manager(st) == st = "CAPTURING"

\* MainWindow._on_complete, the slot of calibration_complete: the parent
\* directory is made, then manager.save(BASELINE_PATH) is called
on_complete(b, fls, ds) ==
  save_result(b, BASELINE_PATH, fls, mkdir_parents(ds, Parent(BASELINE_PATH)))

\* _process_frame, run by the timer: read_ok is what self._cap.read()
\* reports, landmarks is result.pose_landmarks
process_frame(read_ok, landmarks) ==
  /\ timer_on
  /\ handler' = "_process_frame"
  /\ UNCHANGED <<timer_on, cap_open>>
  /\ IF ~cap_open \/ ~read_ok \/ ~feeds_manager(state)
     THEN /\ no_manager_call
          /\ no_file_written
          /\ slot_error' = "none"
          /\ UNCHANGED <<start_enabled, emits, payload>>
     ELSE /\ add_frame(landmarks)
          /\ note_accepted
          /\ LET bar == progress_value(state', start_time', now, capture_duration)
             IN IF raised' # "none" \/ bar.raised # "none"
                THEN /\ slot_error' = IF raised' # "none" THEN raised' ELSE bar.raised
                     /\ no_file_written
                     /\ UNCHANGED <<start_enabled, emits, payload>>
                ELSE IF state' = "COMPLETE"
                THEN LET r == on_complete(baseline', files, dirs)
                     IN /\ start_enabled' = TRUE
                        /\ emits' = emits + 1
                        /\ payload' = baseline'
                        /\ slot_error' = r.raised
                        /\ files' = r.files
                        /\ dirs' = r.dirs
                        /\ path' = BASELINE_PATH
                        /\ loaded' = None
                ELSE IF state' = "FAILED"
                THEN /\ start_enabled' = TRUE
                     /\ slot_error' = "none"
                     /\ no_file_written
                     /\ UNCHANGED <<emits, payload>>
                ELSE /\ slot_error' = "none"
                     /\ no_file_written
                     /\ UNCHANGED <<start_enabled, emits, payload>>

ShowEvent == showEvent /\ UNCHANGED <<reads, pure>>
HideEvent == hideEvent /\ UNCHANGED <<reads, pure>>
OnCancel == on_cancel /\ UNCHANGED <<reads, pure>>
OnStart == on_start /\ UNCHANGED <<reads, pure>>

ProcessFrame ==
  /\ \E read_ok \in BOOLEAN, landmarks \in ViewInputs :
       process_frame(read_ok, landmarks)
  /\ UNCHANGED <<reads, pure>>

TickView == tick /\ UNCHANGED <<reads, store, pure, log, view>>

NextView ==
  \/ ShowEvent
  \/ HideEvent
  \/ OnCancel
  \/ OnStart
  \/ ProcessFrame
  \/ TickView

SpecView == Init /\ [][NextView]_vars

\* ------------------------------------------------------------------------
\* Vocabulary of the properties

Terminal == {"COMPLETE", "FAILED"}

\* the last operation was an add_frame call made while CAPTURING
CapturingCall == op = "add_frame" /\ prev_state = "CAPTURING"

\* some required landmark identifier is absent from lm
RequiredAbsent(lm) == \E idx \in KeySet : idx \notin DOMAIN lm.landmark

\* monotonic time since the last start()
Elapsed == now - start_time[1]

\* ------------------------------------------------------------------------
\* C1: the session starts in IDLE; the state only changes by start() (from
\* any state, to CAPTURING) and by add_frame() (from CAPTURING to COMPLETE or
\* FAILED); nothing but start() leaves COMPLETE or FAILED and nothing returns
\* to IDLE.
C1_Step ==
  /\ op' = "start" => state' = "CAPTURING"
  /\ state' # state =>
       \/ op' = "start" /\ state' = "CAPTURING"
       \/ op' = "add_frame" /\ state = "CAPTURING" /\ state' \in Terminal
  /\ (state \in Terminal /\ op' # "start") => state' = state
  /\ state # "IDLE" => state' # "IDLE"

C1_Transitions == (state = "IDLE") /\ [][C1_Step]_vars

C1_Witness == op = "start" /\ prev_state \in Terminal /\ state = "CAPTURING"

\* C2: start() succeeds in every state and leaves state CAPTURING, an empty
\* buffer, no baseline and the start instant equal to the monotonic clock at
\* the call.
C2_StartResets ==
  op = "start" =>
    /\ raised = "none"
    /\ state = "CAPTURING"
    /\ frames = <<>>
    /\ baseline = None
    /\ start_time = Some(now)

C2_Witness == op = "start" /\ prev_state = "COMPLETE" /\ now > 0

\* C3: add_frame() called while the state is not CAPTURING returns the
\* current state and changes neither state, buffer, baseline nor start
\* instant, whatever the input and the clock.
C3_Step ==
  (op' = "add_frame" /\ state # "CAPTURING") =>
    /\ UNCHANGED <<state, frames, baseline, start_time>>
    /\ raised' = "none"
    /\ ret' = ReturnState(state)

C3_NoOpOutsideCapturing == [][C3_Step]_vars

C3_Witness ==
  /\ op = "add_frame"
  /\ prev_state = "FAILED"
  /\ arg # None
  /\ AllRequiredConfident(arg[1], min_visibility)
  /\ Elapsed >= capture_duration

\* C4: while CAPTURING, add_frame() appends exactly one sample, holding all 7
\* required landmarks, iff landmarks are present and all 7 have confidence >=
\* the threshold (equality accepted); otherwise the buffer is unchanged.  So
\* every buffered sample holds all 7 landmarks with confidence >= threshold.
C4_Step ==
  (op' = "add_frame" /\ state = "CAPTURING") =>
    IF arg' # None /\ AllRequiredConfident(arg'[1], min_visibility)
    THEN frames' = Append(frames, SampleOf(arg'[1]))
    ELSE frames' = frames

C4_BufferInv ==
  \A i \in 1..Len(frames) :
    /\ DOMAIN frames[i] = KeySet
    /\ \A idx \in KeySet : frames[i][idx].visibility >= min_visibility

C4_FilterAndAppend == []C4_BufferInv /\ [][C4_Step]_vars

\* a frame whose confidences all equal the threshold was appended
C4_Witness ==
  /\ CapturingCall
  /\ arg # None
  /\ AllRequiredConfident(arg[1], min_visibility)
  /\ \A idx \in KeySet : arg[1].landmark[idx].visibility = min_visibility
  /\ Len(frames) >= 1
  /\ frames[Len(frames)] = SampleOf(arg[1])

\* C5: add_frame() never raises for malformed input: while CAPTURING a
\* landmark set lacking one of the 7 required identifiers is dropped and the
\* call returns a state normally.
C5_NeverRaises ==
  (CapturingCall /\ arg # None /\ RequiredAbsent(arg[1])) =>
    /\ raised = "none"
    /\ ret.kind = "state"

\* C6: every add_frame() call made while CAPTURING runs the expiry check,
\* whatever the input: elapsed >= window duration finalizes and returns
\* COMPLETE or FAILED, elapsed < duration returns CAPTURING.
C6_ExpiryCheckAlwaysRuns ==
  CapturingCall =>
    IF Elapsed >= capture_duration
    THEN finalized /\ state \in Terminal /\ ret = ReturnState(state)
    ELSE ~finalized /\ state = "CAPTURING" /\ ret = ReturnState("CAPTURING")

\* C7: finalizing with zero accepted samples yields FAILED and no baseline.
C7_EmptyFinalizeFails ==
  (finalized /\ frames = <<>>) => (state = "FAILED" /\ baseline = None)

C7_Witness == finalized /\ frames = <<>> /\ arg # None /\ state = "FAILED"

\* C8: finalizing with at least the minimum number of accepted samples (one:
\* the buffer is non-empty) yields COMPLETE with a baseline.
C8_EnoughSamplesComplete ==
  (finalized /\ Len(frames) >= 1) => (state = "COMPLETE" /\ baseline # None)

C8_Witness == finalized /\ Len(frames) = MaxFrames /\ state = "COMPLETE"

C10_ProgressValue ==
  LET r == progress_value(state, start_time, now, capture_duration)
  IN /\ r.raised = "none"
     /\ RatLeq(Zero, r.val) /\ RatLeq(r.val, One)
     /\ state = "IDLE" => r.val = Zero
     /\ state \in Terminal => r.val = One
     /\ state = "CAPTURING" =>
          IF Elapsed >= capture_duration
          THEN r.val = One
          ELSE r.val.num * capture_duration = Elapsed * r.val.den

\* C11: reading progress never raises, in any reachable state and for every
\* accepted window duration (0 included, started, before any add_frame).
C11_ProgressNeverRaises ==
  op = "progress" => (raised = "none" /\ ret.kind = "float")

\* C12 as claimed: of two successive reads of progress made while CAPTURING,
\* the later value is >= the earlier one, whatever happens between them
\* (add_frame, start, clock ticks).
C12_ProgressMonotonic ==
  (last_read # None /\ last_read[1].earlier # None) =>
    RatLeq(last_read[1].earlier[1], last_read[1].val)

\* C12 amended: the same, provided start() was not called between the two
\* reads: a restart begins a new window and progress falls back.
C12_ProgressMonotonicInWindow ==
  (last_read # None /\ last_read[1].earlier # None
     /\ ~last_read[1].restarted_between) =>
    RatLeq(last_read[1].earlier[1], last_read[1].val)

\* two reads in one window, the later strictly larger, add_frame in between
C12_Witness ==
  /\ op = "progress"
  /\ state = "CAPTURING"
  /\ frames # <<>>
  /\ last_read # None
  /\ last_read[1].earlier # None
  /\ ~last_read[1].restarted_between
  /\ last_read[1].val = ret.val
  /\ last_read[1].earlier[1] # last_read[1].val

\* ------------------------------------------------------------------------
\* Vocabulary of the persistence properties

TopLevelKeys ==
  {"nose", "left_ear", "right_ear", "left_shoulder", "right_shoulder",
   "left_hip", "right_hip", "neck_angle", "shoulder_y_avg", "shoulder_width",
   "torso_centroid_x", "torso_centroid_y", "captured_at"}

PointEntries ==
  {"nose", "left_ear", "right_ear", "left_shoulder", "right_shoulder",
   "left_hip", "right_hip"}

CoordinateKeys == {"x", "y", "z", "visibility"}

\* the stored record parses into a well-formed baseline: every required key
\* is there with a value of the right type (further keys may be there too)
WellFormedPoint(doc) ==
  /\ doc.t = "object"
  /\ CoordinateKeys \subseteq DOMAIN doc.v
  /\ \A k \in CoordinateKeys : doc.v[k].t = "number"

WellFormedRecord(doc) ==
  /\ doc.t = "object"
  /\ TopLevelKeys \subseteq DOMAIN doc.v
  /\ \A k \in PointEntries : WellFormedPoint(doc.v[k])
  /\ \A k \in TopLevelKeys \ PointEntries : doc.v[k].t = "number"

\* C13: save() while the session holds no baseline fails with the
\* no-baseline error, writes nothing, creates no directory and leaves state,
\* buffer, baseline and start instant unchanged.
C13_Step ==
  (op' = "save" /\ baseline = None) =>
    /\ raised' = "RuntimeError"
    /\ UNCHANGED <<files, dirs>>
    /\ UNCHANGED <<state, frames, baseline, start_time>>

C13_SaveWithoutBaseline == [][C13_Step]_vars

\* save fails in a window restarted after an earlier baseline was saved
C13_Witness ==
  /\ op = "save"
  /\ raised = "RuntimeError"
  /\ state = "CAPTURING"
  /\ files[BASELINE_PATH] # None

\* C14: load(p) after save(p) returns a baseline equal to the saved one in
\* its 7 points, 5 metrics and captured_at.
C14_RoundTrip ==
  (op = "save" /\ raised = "none") =>
    LET r == load_result(path, files)
    IN /\ r.raised = "none"
       /\ r.baseline = baseline

C14_Witness ==
  /\ op = "load"
  /\ raised = "none"
  /\ baseline # None
  /\ loaded = baseline
  /\ files[path] = Some(json_dump(baseline_to_dict(baseline[1])))

\* C15: load() of a stored record that is not a well-formed baseline fails
\* with a 'corrupt' failure (an exception other than not-found) and returns
\* nothing; a well-formed record with extra keys loads.
C15_CorruptIsRejected ==
  (op = "load" /\ files[path] # None) =>
    IF files[path][1].t # "invalid" /\ WellFormedRecord(files[path][1])
    THEN raised = "none" /\ loaded # None
    ELSE raised \notin {"none", "FileNotFoundError"} /\ loaded = None

\* C16: load() of a location that does not exist fails with
\* FileNotFoundError, returns no baseline and touches no session.
C16_Step ==
  (op' = "load" /\ files[path'] = None) =>
    /\ raised' = "FileNotFoundError"
    /\ loaded' = None
    /\ UNCHANGED <<state, frames, baseline, start_time, files, dirs>>

C16_LoadMissing == [][C16_Step]_vars

C16_Witness ==
  /\ op = "load"
  /\ raised = "FileNotFoundError"
  /\ files[path] = None
  /\ state = "COMPLETE"

\* C17: a record written by a successful save() has exactly the 13 top-level
\* keys, and each of its 7 point entries exactly the keys x, y, z, visibility.
C17_SavedKeys ==
  (op = "save" /\ raised = "none") =>
    /\ files[path] # None
    /\ files[path][1].t = "object"
    /\ DOMAIN files[path][1].v = TopLevelKeys
    /\ \A k \in PointEntries :
         /\ files[path][1].v[k].t = "object"
         /\ DOMAIN files[path][1].v[k].v = CoordinateKeys

C17_Witness ==
  /\ op = "save"
  /\ raised = "none"
  /\ dirs = {<<>>, <<"data">>}
  /\ files[BASELINE_PATH] # None

\* ------------------------------------------------------------------------
\* Vocabulary of the baseline properties

\* the landmark each baseline point is taken from
LandmarkOf ==
  [nose |-> NOSE, left_ear |-> LEFT_EAR, right_ear |-> RIGHT_EAR,
   left_shoulder |-> LEFT_SHOULDER, right_shoulder |-> RIGHT_SHOULDER,
   left_hip |-> LEFT_HIP, right_hip |-> RIGHT_HIP]

\* the sum of one field of one landmark over the samples
RECURSIVE Total(_, _, _)
Total(samples, idx, field) ==
  IF samples = <<>> THEN 0
  ELSE samples[Len(samples)][idx][field]
       + Total(SubSeq(samples, 1, Len(samples) - 1), idx, field)

\* the fraction v is the equal-weight mean of that field over the samples
IsMeanOf(v, samples, idx, field) ==
  /\ samples # <<>>
  /\ v.den > 0
  /\ v.num * Len(samples) = v.den * Total(samples, idx, field)

\* C18: when a window ends in COMPLETE, each of the 7 baseline points has x,
\* y, z and visibility equal to the equal-weight arithmetic mean of that
\* field over exactly the samples accepted since the last start().
C18_BaselineIsMean ==
  state = "COMPLETE" =>
    /\ baseline # None
    /\ \A name \in DOMAIN LandmarkOf : \A field \in Fields :
         IsMeanOf(baseline[1][name][field], accepted, LandmarkOf[name], field)

\* a baseline averaged from two different samples, equal to neither
C18_Witness ==
  /\ state = "COMPLETE"
  /\ finalized
  /\ Len(accepted) = 2
  /\ accepted[1][NOSE].x # accepted[2][NOSE].x
  /\ \A i \in 1..2 : baseline[1].nose.x # RatInt(accepted[i][NOSE].x)

RatTimes(a, k) == Rat(a.num * k, a.den)

\* the derived metrics of baseline b agree with its points
MetricsConsistent(b) ==
  /\ b.neck_angle = neck_angle(b.right_ear, b.right_shoulder)
  /\ RatTimes(b.shoulder_y_avg, 2) = RatAdd(b.left_shoulder.y, b.right_shoulder.y)
  /\ b.shoulder_width \in {RatSub(b.right_shoulder.x, b.left_shoulder.x),
                           RatSub(b.left_shoulder.x, b.right_shoulder.x)}
  /\ b.shoulder_width.num >= 0
  /\ RatTimes(b.torso_centroid_x, 4) =
       RatAdd(RatAdd(b.left_shoulder.x, b.right_shoulder.x),
              RatAdd(b.left_hip.x, b.right_hip.x))
  /\ RatTimes(b.torso_centroid_y, 4) =
       RatAdd(RatAdd(b.left_shoulder.y, b.right_shoulder.y),
              RatAdd(b.left_hip.y, b.right_hip.y))

\* the 7 points of baseline b are the averaged points avg, unchanged
PointsCopied(b, avg) ==
  \A name \in DOMAIN LandmarkOf : \A field \in Fields :
    b[name][field] = avg[LandmarkOf[name]][field]

Applied(fn) == op = "apply" /\ pure_out # None /\ pure_out[1].fn = fn

\* C19: every baseline the session computes has the 7 averaged points
\* unchanged, neck_angle the neck angle of the right ear and right shoulder,
\* shoulder_y_avg the mean of the two shoulder y, shoulder_width the
\* non-negative distance of the two shoulder x, and the torso centroid the
\* mean of the two shoulders and two hips.
C19_MetricsConsistent ==
  /\ Applied("compute_baseline") =>
       /\ PointsCopied(pure_out[1].val, pure_out[1].args[1])
       /\ MetricsConsistent(pure_out[1].val)
  /\ baseline # None => MetricsConsistent(baseline[1])

\* a baseline whose left pair has another neck angle than the right pair,
\* and whose right shoulder is to the left of the left shoulder
C19_Witness ==
  /\ Applied("compute_baseline")
  /\ LET b == pure_out[1].val
     IN /\ neck_angle(b.left_ear, b.left_shoulder) # b.neck_angle
        /\ b.right_shoulder.x.num < b.left_shoulder.x.num
        /\ b.shoulder_width = RatInt(1)

\* ear and shoulder of the last neck angle computed
EarOf == pure_out[1].args[1]
ShoulderOf == pure_out[1].args[2]

\* C20: the neck angle is 0 degrees whenever ear.x = shoulder.x and the
\* vertical offset is nonzero, whatever its sign.
C20_ZeroRegardlessOfSign ==
  (/\ Applied("neck_angle")
   /\ EarOf.x = ShoulderOf.x
   /\ EarOf.y # ShoulderOf.y) =>
    /\ pure_out[1].val.exact
    /\ pure_out[1].val.deg = 0

\* C20 (amended): with ear.x = shoulder.x the neck angle is 0 degrees when
\* the ear is above the shoulder (ear.y < shoulder.y, y growing downward)
\* and 180 degrees when it is below.
C20_ZeroWhenEarAbove ==
  (/\ Applied("neck_angle")
   /\ EarOf.x = ShoulderOf.x
   /\ EarOf.y # ShoulderOf.y) =>
    /\ pure_out[1].val.exact
    /\ pure_out[1].val.deg =
         IF RatLeq(EarOf.y, ShoulderOf.y) THEN 0 ELSE 180

\* the ear straight below the shoulder: 180 degrees
C20_Witness ==
  /\ Applied("neck_angle")
  /\ EarOf.x = ShoulderOf.x
  /\ ~RatLeq(EarOf.y, ShoulderOf.y)
  /\ pure_out[1].val.deg = 180

\* ------------------------------------------------------------------------
\* Vocabulary of the averaging properties

\* the list averaged last
AveragedList == pure_out[1].args[1]

AllIdentical(fs) == \A i \in 1..Len(fs) : fs[i] = fs[1]

C25_Step ==
  (/\ op' = "add_frame"
   /\ state = "CAPTURING"
   /\ finalized'
   /\ arg' # None
   /\ AllRequiredConfident(arg'[1], min_visibility)) =>
    /\ state' = "COMPLETE"
    /\ frames' = Append(frames, SampleOf(arg'[1]))
    /\ baseline' # None
    /\ \A name \in DOMAIN LandmarkOf : \A field \in Fields :
         IsMeanOf(baseline'[1][name][field],
                  Append(accepted, SampleOf(arg'[1])), LandmarkOf[name], field)

C25_AppendBeforeExpiry == [][C25_Step]_vars

\* the only accepted frame of the window arrived in the finalizing call
C25_Witness ==
  /\ CapturingCall
  /\ finalized
  /\ state = "COMPLETE"
  /\ arg # None
  /\ accepted = <<SampleOf(arg[1])>>
  /\ frames = accepted
  /\ capture_duration > 0

\* ------------------------------------------------------------------------
\* C24: completion is cooperative: the passage of time and reads of progress
\* never change the session; without an add_frame() call it stays CAPTURING
\* even when the window has elapsed and progress reads 1.0.
C24_Step ==
  (op' \in {"tick", "progress"}) =>
    UNCHANGED <<state, baseline, frames, start_time>>

C24_Cooperative == [][C24_Step]_vars

\* still CAPTURING although the clock is past the end of the window and
\* progress has just read 1.0
C24_Witness ==
  /\ state = "CAPTURING"
  /\ op = "progress"
  /\ raised = "none"
  /\ ret = ReturnFloat(One)
  /\ capture_duration > 0
  /\ Elapsed > capture_duration

\* ------------------------------------------------------------------------
\* C26: through start(), add_frame(), save() and progress the session holds
\* a baseline exactly when it is COMPLETE; the baseline appears only in the
\* add_frame() call that moves CAPTURING to COMPLETE and disappears only by
\* start().  In FAILED the buffer is empty, in COMPLETE it is not.
C26_Inv ==
  /\ (baseline # None) <=> (state = "COMPLETE")
  /\ state = "FAILED" => frames = <<>>
  /\ state = "COMPLETE" => frames # <<>>

C26_Step ==
  /\ (baseline = None /\ baseline' # None) =>
       /\ op' = "add_frame"
       /\ state = "CAPTURING"
       /\ state' = "COMPLETE"
  /\ (baseline # None /\ baseline' = None) => op' = "start"

C26_BaselineLifecycle == []C26_Inv /\ [][C26_Step]_vars

\* a second window that failed after the baseline of the first was saved
C26_Witness ==
  /\ state = "FAILED"
  /\ baseline = None
  /\ frames = <<>>
  /\ files[BASELINE_PATH] # None

\* ------------------------------------------------------------------------
\* C23: if after start() the clock keeps advancing and add_frame() keeps
\* being called, with any inputs, and start() is not called again, the
\* session eventually reaches COMPLETE or FAILED.  (Stated of the windows
\* that end before the clock of the model stops.)
C23_EventuallyTerminal ==
  (state = "CAPTURING" /\ start_time[1] + capture_duration <= MaxClock) ~>
    (state \in Terminal \/ (op = "start" /\ prev_state = "CAPTURING"))

\* ------------------------------------------------------------------------
\* C28: in the view's frame loop, for each capture begun with the Start
\* button calibration_complete is emitted at most once, only on the timer
\* tick whose add_frame() call moved the manager from CAPTURING to COMPLETE,
\* and with a baseline that is not None, so that the launcher's save() in
\* its completion handler does not fail with the no-baseline error; later
\* ticks in COMPLETE or FAILED neither call add_frame() nor emit again.
C28_Inv ==
  /\ emits <= 1
  /\ emits = 1 => payload # None
  /\ slot_error # "RuntimeError"

C28_Step ==
  /\ (emits' # emits /\ handler' # "_on_start") =>
       /\ handler' = "_process_frame"
       /\ op' = "add_frame"
       /\ state = "CAPTURING"
       /\ state' = "COMPLETE"
       /\ emits' = emits + 1
       /\ payload' # None
       /\ payload' = baseline'
       /\ slot_error' = "none"
       /\ files'[BASELINE_PATH] = Some(json_dump(baseline_to_dict(payload'[1])))
  /\ (handler' = "_process_frame" /\ state \in Terminal) =>
       /\ op' # "add_frame"
       /\ UNCHANGED <<emits, payload, files>>
       /\ UNCHANGED <<state, baseline, frames, start_time>>

C28_EmitOnce == []C28_Inv /\ [][C28_Step]_vars

\* a timer tick, with the camera open, after the capture completed and its
\* baseline was emitted and saved
C28_Witness ==
  /\ handler = "_process_frame"
  /\ op = "view"
  /\ cap_open
  /\ state = "COMPLETE"
  /\ emits = 1
  /\ payload = baseline
  /\ files[BASELINE_PATH] = Some(json_dump(baseline_to_dict(baseline[1])))
  /\ start_enabled

====
